---- MODULE Spec2Model ----
(***************************************************************************)
(* Model of the MonCurse level converters:                                 *)
(*   map/bin_to_tiled.py  convert()            binary level -> TMX (GIDs)  *)
(*   tiled_to_bin.py      convert_tmx_to_bin() TMX (GIDs)   -> binary level*)
(*                                                                         *)
(* Conventions of the model                                                *)
(*  - A path is a sequence of character codes, so that sorted() (lines     *)
(*    306) and the substring test (tiled_to_bin.py 114) are computed.      *)
(*    None and '' are both the empty sequence (both are falsy at 110/113). *)
(*  - Regions and strides are floats in the source; the model holds them   *)
(*    in tenths of a pixel (Tenths), so that the 0.1 tolerance of          *)
(*    get_godot_tile_from_pixel is the integer EPSILON.                    *)
(*  - A GID is a Python integer v with -2^31 <= v < 2^32, held as          *)
(*    [hi, lo] with v = hi * 2^29 + lo and 0 <= lo < 2^29: bits 0..28 are  *)
(*    lo, bits 29..31 are hi % 8 (two's complement for negative v).        *)
(*                                                                         *)
(* Two specifications                                                      *)
(*  - Spec: the registry is built, then the body of either cell loop is    *)
(*    applied to one sampled cell (ConvertCell, ConvertGid); last holds    *)
(*    the cell and its result.                                             *)
(*  - SpecStream: the registry is built, a .bin file is read layer by      *)
(*    layer into the .tmx, the .tmx is optionally edited, and it is        *)
(*    written back layer by layer into out_bin.  A .tmx layer is the list  *)
(*    of the lines of its CSV text.  rpc = "raised" is a run that an       *)
(*    exception ended.                                                     *)
(***************************************************************************)
EXTENDS Integers, Sequences, FiniteSets, TLC

(***************************** configuration *******************************)

TILE_SIZE == 128

TSCN_PATH == "main.tscn"

USE_MAIN_TSCN == "USE_MAIN_TSCN"

DIRECT_ICON_MAPPING == "DIRECT_ICON_MAPPING"

BINARY_READ_ORDER ==
    << "constructmap", "constructmapedges", "constructbackground",
       "constructbackground/backgroundfeatures", "Map", "Mapedges",
       "Mapbackground", "paths", "features", "roofmap", "foliage",
       "shards", "watermap", "cummap", "spawnmarker",
       "destructiblefeatures", "watermaptops" >>

BINARY_WRITE_ORDER ==
    << "constructmap", "constructmapedges", "constructbackground",
       "constructbackground/backgroundfeatures", "Map", "Mapedges",
       "Mapbackground", "paths", "features", "roofmap", "foliage",
       "shards", "watermap", "cummap", "spawnmarker",
       "destructiblefeatures", "watermaptops" >>

LayerNames == { BINARY_READ_ORDER[i] : i \in DOMAIN BINARY_READ_ORDER }

LAYER_CONFIG(layer) ==
    CASE layer = "constructbackground" -> "Tilemaps/constructbackground.tres"
      [] layer = "constructbackground/backgroundfeatures" -> "Tilemaps/backgroundfeatures.tres"
      [] layer = "constructmap" -> "Tilemaps/constructmap.tres"
      [] layer = "constructmapedges" -> "Tilemaps/constructmapedges.tres"
      [] layer = "Map" -> "Tilemaps/map.tres"
      [] layer = "Mapedges" -> "Tilemaps/mapedges.tres"
      [] layer = "paths" -> "Tilemaps/paths.tres"
      [] layer = "features" -> "Tilemaps/features.tres"
      [] layer = "roofmap" -> "Tilemaps/roofmap.tres"
      [] layer = "foliage" -> "Tilemaps/foliage.tres"
      [] layer = "shards" -> "Tilemaps/shards.tres"
      [] layer = "watermap" -> "Tilemaps/water.tres"
      [] layer = "watermaptops" -> "Tilemaps/water.tres"
      [] layer = "cummap" -> "Tilemaps/cumtiles.tres"
      [] layer = "destructiblefeatures" -> "Tilemaps/isometrictiles.tres"
      [] layer = "Mapbackground" -> USE_MAIN_TSCN
      [] layer = "spawnmarker" -> DIRECT_ICON_MAPPING

TYPE_AUTOTILE == 1

TYPE_FLIP == 2

TYPE_SIMPLE == 3

LAYER_TYPES(layer) ==
    IF layer \in { "constructmap", "constructmapedges", "constructbackground", "Map",
                   "Mapedges", "Mapbackground", "roofmap", "watermap" }
    THEN TYPE_AUTOTILE
    ELSE IF layer \in { "constructbackground/backgroundfeatures", "features",
                        "foliage", "cummap", "destructiblefeatures" }
         THEN TYPE_FLIP
         ELSE TYPE_SIMPLE

\* 0x1FFFFFFF: bits 0..28
GID_MASK == 2^29 - 1

\* 0x80000000 in units of 2^29: the value 4 of the three bits 29..31
FLIPPED_HORIZONTALLY_FLAG == [hi |-> 4, lo |-> 0]

\* the 0.1 pixel tolerance of the region test, in tenths of a pixel
EPSILON == 1

Tenths(pixels) == 10 * pixels

(******************************* helpers ***********************************)

\* p < q for Python strings (code point order, a proper prefix sorts first)
RECURSIVE StrLess(_, _)
StrLess(p, q) ==
    IF q = << >> THEN FALSE
    ELSE IF p = << >> THEN TRUE
    ELSE IF Head(p) # Head(q) THEN Head(p) < Head(q)
    ELSE StrLess(Tail(p), Tail(q))

\* sorted(S) for a set of strings
RECURSIVE Sorted(_)
Sorted(S) ==
    IF S = {} THEN << >>
    ELSE LET m == CHOOSE p \in S : \A q \in S \ {p} : StrLess(p, q)
         IN << m >> \o Sorted(S \ {m})

\* Python's  p in q  for strings
StrIn(p, q) ==
    \E i \in 0 .. (Len(q) - Len(p)) : SubSeq(q, i + 1, i + Len(p)) = p

\* int(round(n / d)) for d # 0: Python 3 rounds a half to the even neighbour
RoundDiv(n, d) ==
    LET nn == IF d < 0 THEN -n ELSE n
        dd == IF d < 0 THEN -d ELSE d
        q == nn \div dd
        r == nn % dd
    IN IF 2 * r < dd THEN q
       ELSE IF 2 * r > dd THEN q + 1
       ELSE IF q % 2 = 0 THEN q ELSE q + 1

\* a Python integer as a GID value, and back when it fits
IntToGid(n) == [hi |-> n \div (GID_MASK + 1), lo |-> n % (GID_MASK + 1)]

\* raw & FLIPPED_HORIZONTALLY_FLAG  (bit 31 of the two's complement value)
HasFlipFlag(raw) == (raw.hi % 8) \div FLIPPED_HORIZONTALLY_FLAG.hi = 1

\* final_gid |= FLIPPED_HORIZONTALLY_FLAG
OrFlipFlag(g) ==
    IF HasFlipFlag(g) THEN g ELSE [g EXCEPT !.hi = g.hi + FLIPPED_HORIZONTALLY_FLAG.hi]

(******************************** inputs ***********************************)

\* image paths: PathX sorts first and contains PathA as a substring;
\* spawn_icon_path stands for "Tilemaps/newsandstone.png" and sorts last
PathX == << 1, 2 >>

PathA == << 2 >>

spawn_icon_path == << 3 >>

Paths == { PathX, PathA, spawn_icon_path }

\* the resource files LAYER_CONFIG names, and main.tscn
ResourceFiles ==
    { LAYER_CONFIG(l) : l \in LayerNames \ { "Mapbackground", "spawnmarker" } }
        \cup { TSCN_PATH }

\* what the file system holds for an image path
Missing == [kind |-> "missing", w |-> 0, h |-> 0]

NotPng == [kind |-> "notpng", w |-> 0, h |-> 0]

Png(w, h) == [kind |-> "png", w |-> w, h |-> h]

ImageChoices(path) ==
    IF path = PathX THEN { Missing, NotPng, Png(129, 1) }
    ELSE IF path = PathA THEN { Missing, Png(0, 128), Png(512, 256) }
    ELSE { Missing, Png(384, 256), Png(2048, 2048) }

\* tile definitions the resource files may hold (lengths in tenths of a pixel)
TileDefinition(godot_id, texture_path, region, stride, tile_mode) ==
    [godot_id |-> godot_id, texture_path |-> texture_path, region |-> region,
     stride |-> stride, tile_mode |-> tile_mode]

T128 == Tenths(TILE_SIZE)

Def5 == TileDefinition(5, PathA, << 0, 0, T128, T128 >>, << T128, T128 >>, 1)

Def4 == TileDefinition(4, PathA, << 0, T128, 4 * T128, T128 >>, << T128, T128 >>, 1)

Def0 == TileDefinition(0, PathX, << T128, 0, T128, T128 >>, << T128, T128 >>, 0)

DefNeg == TileDefinition(1, PathA, << -2 * T128, -T128, T128, T128 >>, << T128, T128 >>, 0)

DefCatalogue == { Def5, Def4, Def0, DefNeg }

\* a definition whose region holds the region of Def5, and the file that
\* declares both
DefOver == TileDefinition(3, PathA, << 0, 0, 2 * T128, T128 >>, << T128, T128 >>, 1)

OverlapDefs == { Def5, DefOver }

MaxDefs == 2

\* a resource file declares each tile id once (the ids are collected in a set)
DefSets ==
    { S \in SUBSET DefCatalogue :
        /\ Cardinality(S) <= MaxDefs
        /\ \A a, b \in S : a.godot_id = b.godot_id => a = b }
      \cup { OverlapDefs }

TexturePaths(S) == { d.texture_path : d \in S }

(******************************* variables *********************************)

VARIABLES
    image_files,            \* path -> what the file system holds
    resource_defs,          \* the tile definitions of main.tscn and of the .tres files
    pc,                     \* convert(): position
    layer_tile_definitions, \* convert(): layer -> tile definitions, keyed by id
    unique_images,          \* convert(): path -> ImageTileset
    gen_idx,                \* convert(): images of sorted_img_paths already numbered
    current_firstgid,       \* convert()
    tsx_files,              \* path -> the .tsx file written for it, or NoFile
    tmx_tilesets,           \* the <tileset> nodes of the written .tmx
    rpc,                    \* convert_tmx_to_bin(): position
    tilesets,               \* convert_tmx_to_bin(): TilesetInfo list
    layer_definitions,      \* convert_tmx_to_bin(): layer -> definition list
    last,                   \* the cell the codec handled last
    bin_data,               \* convert(): the bytes of the .bin file
    ptr,                    \* convert(): the cursor of get8
    width,                  \* convert()
    height,                 \* convert()
    read_idx,               \* convert(): layers of BINARY_READ_ORDER already parsed
    parsed_layers,          \* convert(): layer -> the lines of its CSV
    tmx_file,               \* the .tmx: width, height and the CSV lines of its layers
    edited,                 \* the .tmx was changed after convert() wrote it
    map_width,              \* convert_tmx_to_bin()
    map_height,             \* convert_tmx_to_bin()
    tmx_layers,             \* convert_tmx_to_bin(): layer -> grid[x][y]
    write_idx,              \* convert_tmx_to_bin(): layers of BINARY_WRITE_ORDER written
    out_bin                 \* the bytes of the written .bin file

world == << image_files, resource_defs >>

forward_stream == << bin_data, ptr, width, height, read_idx, parsed_layers >>

reverse_stream == << map_width, map_height, tmx_layers, write_idx, out_bin >>

stream == << forward_stream, tmx_file, edited, reverse_stream >>

registry == << layer_tile_definitions, unique_images, gen_idx, current_firstgid, tsx_files >>

reverse_setup == << rpc, tilesets, layer_definitions >>

vars == << world, pc, registry, tmx_tilesets, reverse_setup, last, stream >>

NoFile == [source |-> << >>, width |-> -1, columns |-> -1]

NoCell == [op |-> "none", layer_name |-> "", cell |-> << >>, gid |-> IntToGid(0), ok |-> TRUE]

NoTmx == [width |-> 0, height |-> 0, layers |-> << >>]

(************************ bin_to_tiled.py: registry ************************)

ImageTileset(rel_path) ==
    [rel_path |-> rel_path, width |-> 0, height |-> 0, firstgid |-> 0, cols |-> 0, rows |-> 0]

get_grid_dim(pixels) ==
    IF pixels <= 0 THEN 0 ELSE (pixels + TILE_SIZE - 1) \div TILE_SIZE

\* get_image_dimensions, with the 128x128 placeholder of create_tsx
ImageDimensions(file) ==
    IF file.kind = "png" THEN << file.w, file.h >> ELSE << 128, 128 >>

\* create_tsx: the ImageTileset after the call
create_tsx(image_ts, file) ==
    IF file.kind = "missing" THEN image_ts
    ELSE LET wh == ImageDimensions(file)
         IN [image_ts EXCEPT !.width = wh[1], !.height = wh[2],
                             !.cols = get_grid_dim(wh[1]), !.rows = get_grid_dim(wh[2])]

\* create_tsx: the file it writes (none for a missing image)
WrittenTsx(image_ts, file) ==
    IF file.kind = "missing" THEN NoFile
    ELSE LET wh == ImageDimensions(file)
         IN [source |-> image_ts.rel_path, width |-> wh[1], columns |-> get_grid_dim(wh[1])]

\* step 1 of convert: the definitions of every layer and the images they name
LayerResource(layer) ==
    IF LAYER_CONFIG(layer) = USE_MAIN_TSCN THEN TSCN_PATH ELSE LAYER_CONFIG(layer)

\* parse_tscn_subresource(TSCN_PATH, 16) and parse_tres_for_tile_defs(tres_file):
\* the inputs hold one definition set for main.tscn and one that every .tres shares
ParsedDefs(file) == IF file = TSCN_PATH THEN resource_defs.tscn ELSE resource_defs.tres

DefinedLayers == LayerNames \ { "spawnmarker" }

ScanResources ==
    /\ pc = "scan"
    /\ layer_tile_definitions' = [l \in DefinedLayers |-> ParsedDefs(LayerResource(l))]
    /\ unique_images' =
         LET found == UNION { TexturePaths(ParsedDefs(LayerResource(l))) : l \in DefinedLayers }
                        \cup { spawn_icon_path }
         IN [p \in found |-> ImageTileset(p)]
    /\ pc' = "generate"
    /\ UNCHANGED << world, gen_idx, current_firstgid, tsx_files, tmx_tilesets, reverse_setup, last, stream >>

sorted_img_paths == Sorted(DOMAIN unique_images)

\* mutant: the next firstgid is the last GID of the atlas (the value line 316 prints)
AdvanceFirstGid_lastGid(firstgid, img_ts) == firstgid + img_ts.cols * img_ts.rows - 1

AdvanceFirstGid(firstgid, img_ts) == firstgid + img_ts.cols * img_ts.rows

\* step 2 of convert: one iteration of the loop over sorted_img_paths
GenerateTileset ==
    /\ pc = "generate"
    /\ gen_idx < Len(sorted_img_paths)
    /\ LET path == sorted_img_paths[gen_idx + 1]
           img_ts == create_tsx([unique_images[path] EXCEPT !.firstgid = current_firstgid],
                                image_files[path])
       IN /\ unique_images' = [unique_images EXCEPT ![path] = img_ts]
          /\ tsx_files' = [tsx_files EXCEPT ![path] = WrittenTsx(img_ts, image_files[path])]
          /\ current_firstgid' = AdvanceFirstGid(current_firstgid, img_ts)
    /\ gen_idx' = gen_idx + 1
    /\ pc' = IF gen_idx + 1 = Len(sorted_img_paths) THEN "cells" ELSE "generate"
    /\ UNCHANGED << world, layer_tile_definitions, tmx_tilesets, reverse_setup, last, stream >>

(********************** bin_to_tiled.py: forward codec *********************)

\* int(round(pixel / TILE_SIZE)) for a pixel coordinate in tenths
GridCoord(pixel) == RoundDiv(pixel, Tenths(TILE_SIZE))

InAtlasGrid(grid_x, grid_y, img_ts) == grid_x < img_ts.cols /\ grid_y < img_ts.rows

\* mutant: the grid coordinate is flattened column by column
LocalId_columnMajor(grid_x, grid_y, cols) == grid_y + (grid_x * cols)

LocalId(grid_x, grid_y, cols) == grid_x + (grid_y * cols)

\* mutant: the stored byte, not the tile index, is added to firstgid
IconGid_storedByte(img_ts, local_id) ==
    IF local_id < img_ts.cols * img_ts.rows
    THEN img_ts.firstgid + local_id + 1
    ELSE img_ts.firstgid

\* lines 371-375: the spawnmarker layer maps the tile index into the icon atlas
IconGid(img_ts, local_id) ==
    IF local_id < img_ts.cols * img_ts.rows
    THEN img_ts.firstgid + local_id
    ELSE img_ts.firstgid

\* lines 379-394: the GID of a cell whose tile index has a definition
StandardGid(t_def, img_ts, auto_x, auto_y, flip) ==
    LET pixel_x == t_def.region[1] + (IF t_def.tile_mode > 0 THEN auto_x * t_def.stride[1] ELSE 0)
        pixel_y == t_def.region[2] + (IF t_def.tile_mode > 0 THEN auto_y * t_def.stride[2] ELSE 0)
        grid_x == GridCoord(pixel_x)
        grid_y == GridCoord(pixel_y)
        final_gid == IntToGid(img_ts.firstgid + LocalId(grid_x, grid_y, img_ts.cols))
    IN IF InAtlasGrid(grid_x, grid_y, img_ts)
       THEN IF flip THEN OrFlipFlag(final_gid) ELSE final_gid
       ELSE IntToGid(0)

\* bytes of one cell: the tile index byte and the auxiliary bytes of the type
AuxBytes(parse_type) ==
    IF parse_type = TYPE_AUTOTILE THEN 2 ELSE IF parse_type = TYPE_FLIP THEN 1 ELSE 0

\* lines 349-396: the GID of one cell; cell holds the bytes get8 returned for it
ForwardCell(layer_name, tile_defs, images, cell) ==
    LET parse_type == LAYER_TYPES(layer_name)
        tile_id == cell[1] - 1
        auto_x == IF parse_type = TYPE_AUTOTILE THEN cell[2] ELSE 0
        auto_y == IF parse_type = TYPE_AUTOTILE THEN cell[3] ELSE 0
        flip == IF parse_type = TYPE_FLIP THEN cell[2] = 1 ELSE FALSE
    IN IF tile_id >= 0
       THEN IF layer_name = "spawnmarker"
            THEN IntToGid(IconGid(images[spawn_icon_path], tile_id))
            ELSE IF \E d \in tile_defs : d.godot_id = tile_id
                 THEN LET t_def == CHOOSE d \in tile_defs : d.godot_id = tile_id
                      IN StandardGid(t_def, images[t_def.texture_path], auto_x, auto_y, flip)
                 ELSE IntToGid(0)
       ELSE IntToGid(0)

\* layer_tile_definitions.get(layer_name, {})
TileDefsOf(layer_name) ==
    IF layer_name \in DOMAIN layer_tile_definitions
    THEN layer_tile_definitions[layer_name]
    ELSE {}

\* the cells the codec is applied to
ValSamples == { 0, 1, 2, 5, 6, 255 }

MaxAuto == 2

FlipSamples == { 0, 1, 2 }

CellSamples(parse_type) ==
    IF parse_type = TYPE_AUTOTILE
    THEN { << v, ax, ay >> : v \in ValSamples, ax \in 0 .. MaxAuto, ay \in 0 .. 1 }
    ELSE IF parse_type = TYPE_FLIP
         THEN { << v, f >> : v \in ValSamples, f \in FlipSamples }
         ELSE { << v >> : v \in ValSamples }

\* the body of the cell loop of convert, on one cell of one layer
ConvertCell ==
    /\ pc = "cells"
    /\ last.op = "none"
    /\ \E layer_name \in LayerNames :
         \E cell \in CellSamples(LAYER_TYPES(layer_name)) :
            last' = [op |-> "forward", layer_name |-> layer_name, cell |-> cell,
                     gid |-> ForwardCell(layer_name, TileDefsOf(layer_name), unique_images, cell),
                     ok |-> TRUE]
    /\ UNCHANGED << world, pc, registry, tmx_tilesets, reverse_setup, stream >>

\* lines 417-422: the <tileset> nodes, in the order of sorted_img_paths
TilesetNodes ==
    [i \in 1 .. Len(sorted_img_paths) |->
        [firstgid |-> unique_images[sorted_img_paths[i]].firstgid,
         source |-> sorted_img_paths[i]]]

WriteTilesets ==
    /\ pc = "cells"
    /\ last.op = "none"
    /\ tmx_tilesets' = TilesetNodes
    /\ pc' = "done"
    /\ UNCHANGED << world, registry, reverse_setup, last, stream >>

(************************ tiled_to_bin.py: set-up ***************************)

\* parse_tsx: (image path, columns); (None, 0) when the .tsx file does not exist
parse_tsx(file) ==
    IF file = NoFile THEN << << >>, 0 >>
    ELSE << file.source,
            IF file.columns = 0
            THEN (file.width + TILE_SIZE - 1) \div TILE_SIZE
            ELSE file.columns >>

TilesetInfo(firstgid, source_tsx, file) ==
    [firstgid |-> firstgid, source_tsx |-> source_tsx,
     image_path |-> parse_tsx(file)[1], columns |-> parse_tsx(file)[2]]

\* tilesets.sort(key=firstgid, reverse=True): stable, equal keys keep their order
RECURSIVE InsertByFirstgid(_, _)
InsertByFirstgid(sorted, ts) ==
    IF sorted = << >> THEN << ts >>
    ELSE IF Head(sorted).firstgid >= ts.firstgid
         THEN << Head(sorted) >> \o InsertByFirstgid(Tail(sorted), ts)
         ELSE << ts >> \o sorted

RECURSIVE SortTilesets(_, _)
SortTilesets(sorted, rest) ==
    IF rest = << >> THEN sorted
    ELSE SortTilesets(InsertByFirstgid(sorted, Head(rest)), Tail(rest))

\* the orders in which a set of ids can be iterated (for tid in ids, ids a set)
IdOrders(ids) ==
    { order \in [1 .. Cardinality(ids) -> ids] :
        \A i, j \in DOMAIN order : i # j => order[i] # order[j] }

AllIds == UNION { { d.godot_id : d \in ParsedDefs(f) } : f \in ResourceFiles }

\* the order in which the resource files list their tile ids: ascending
RECURSIVE Ascending(_)
Ascending(ids) ==
    IF ids = {} THEN << >>
    ELSE LET m == CHOOSE i \in ids : \A j \in ids : i <= j
         IN << m >> \o Ascending(ids \ { m })

SourceOrder == Ascending(AllIds)

\* parse_tile_definitions_from_string: the definitions of a file as a list
DefinitionList(defs, order) ==
    LET present == SelectSeq(order, LAMBDA id : \E d \in defs : d.godot_id = id)
    IN [i \in 1 .. Len(present) |-> CHOOSE d \in defs : d.godot_id = present[i]]

\* lines 148-157: the TilesetInfo list of the <tileset> nodes, sorted
LoadTilesets(nodes) ==
    SortTilesets(<< >>,
        [i \in DOMAIN nodes |->
            TilesetInfo(nodes[i].firstgid, nodes[i].source, tsx_files[nodes[i].source])])

\* lines 148-157 and 172-180: the tilesets of the .tmx and the definition lists
ParseTmx ==
    /\ pc = "done"
    /\ rpc = "start"
    /\ tilesets' = LoadTilesets(tmx_tilesets)
    /\ \E order \in IdOrders(AllIds) :
          layer_definitions' =
              [l \in DefinedLayers |-> DefinitionList(ParsedDefs(LayerResource(l)), order)]
    /\ rpc' = "cells"
    /\ UNCHANGED << world, pc, registry, tmx_tilesets, last, stream >>

(********************** tiled_to_bin.py: reverse codec *********************)

\* mutant: the flip flag leaks into the masked GID
MaskGid_flipLeak(raw) == (raw.lo % (GID_MASK + 1)) + (IF HasFlipFlag(raw) THEN 1 ELSE 0)

\* raw_gid & GID_MASK
MaskGid(raw) == raw.lo % (GID_MASK + 1)

NoTile == [found |-> FALSE, godot_id |-> 0, auto_x |-> 0, auto_y |-> 0, raised |-> FALSE]

PathMatches(definition, texture_path) ==
    texture_path # << >> =>
        (StrIn(definition.texture_path, texture_path) \/ StrIn(texture_path, definition.texture_path))

RegionContains(region, pixel_x, pixel_y) ==
    /\ Tenths(pixel_x) >= region[1] - EPSILON
    /\ Tenths(pixel_x) < region[1] + region[3] - EPSILON
    /\ Tenths(pixel_y) >= region[2] - EPSILON
    /\ Tenths(pixel_y) < region[2] + region[4] - EPSILON

\* get_godot_tile_from_pixel: the first definition of the list that matches;
\* raised is the ZeroDivisionError of a zero stride
get_godot_tile_from_pixel(layer_defs, texture_path, pixel_x, pixel_y) ==
    LET hits == { i \in DOMAIN layer_defs :
                    /\ PathMatches(layer_defs[i], texture_path)
                    /\ RegionContains(layer_defs[i].region, pixel_x, pixel_y) }
    IN IF hits = {} THEN NoTile
       ELSE LET definition == layer_defs[CHOOSE i \in hits : \A j \in hits : i <= j]
                offset_x == Tenths(pixel_x) - definition.region[1]
                offset_y == Tenths(pixel_y) - definition.region[2]
            IN IF definition.stride[1] = 0 \/ (definition.stride[2] = 0)
               THEN [NoTile EXCEPT !.raised = TRUE]
               ELSE [found |-> TRUE, godot_id |-> definition.godot_id,
                     auto_x |-> RoundDiv(offset_x, definition.stride[1]),
                     auto_y |-> RoundDiv(offset_y, definition.stride[2]),
                     raised |-> FALSE]

\* lines 205-209: the first tileset, in descending firstgid order, with firstgid <= gid
TargetIndex(gid, tss) ==
    IF \E i \in DOMAIN tss : gid >= tss[i].firstgid
    THEN CHOOSE i \in DOMAIN tss :
            /\ gid >= tss[i].firstgid
            /\ \A j \in DOMAIN tss : gid >= tss[j].firstgid => i <= j
    ELSE 0

IconTileIndex(local_id) == local_id + 1

EmptyCell == [final_id |-> 0, auto_x |-> 0, auto_y |-> 0, raised |-> FALSE]

\* lines 220-221: the grid coordinate of a local index
ImgGrid(target_ts, local_id) ==
    << IF target_ts.columns > 0 THEN local_id % target_ts.columns ELSE 0,
       IF target_ts.columns > 0 THEN local_id \div target_ts.columns ELSE 0 >>

\* lines 226-241: a layer other than spawnmarker
LookupCell(layer_name, defs, target_ts, local_id) ==
    LET img_grid_x == ImgGrid(target_ts, local_id)[1]
        img_grid_y == ImgGrid(target_ts, local_id)[2]
        pixel_x == img_grid_x * TILE_SIZE
        pixel_y == img_grid_y * TILE_SIZE
        tile == get_godot_tile_from_pixel(defs, target_ts.image_path, pixel_x, pixel_y)
    IN IF tile.raised THEN [EmptyCell EXCEPT !.raised = TRUE]
       ELSE IF tile.found
            THEN [final_id |-> tile.godot_id + 1, auto_x |-> tile.auto_x,
                  auto_y |-> tile.auto_y, raised |-> FALSE]
            ELSE IF layer_name = "Mapbackground" /\ defs # << >>
                 THEN [final_id |-> defs[1].godot_id + 1, auto_x |-> img_grid_x,
                       auto_y |-> img_grid_y, raised |-> FALSE]
                 ELSE EmptyCell

\* lines 196-241: tile index and autotile offsets of one raw GID
ReverseCell(layer_name, defs, tss, raw) ==
    LET gid == MaskGid(raw)
        t == TargetIndex(gid, tss)
    IN IF gid > 0 /\ t # 0
       THEN IF layer_name = "spawnmarker"
            THEN [EmptyCell EXCEPT !.final_id = IconTileIndex(gid - tss[t].firstgid)]
            ELSE LookupCell(layer_name, defs, tss[t], gid - tss[t].firstgid)
       ELSE EmptyCell

\* struct.pack('B', v) raises for a value outside 0..255
IsByte(v) == v \in 0 .. 255

\* lines 243-248: the values the cell asks to write, in order
CellValues(layer_type, r, flipped_h) ==
    IF layer_type = TYPE_AUTOTILE THEN << r.final_id, r.auto_x, r.auto_y >>
    ELSE IF layer_type = TYPE_FLIP THEN << r.final_id, IF flipped_h THEN 1 ELSE 0 >>
    ELSE << r.final_id >>

\* the bytes that reach the file: those before the first value that is no byte
RECURSIVE WrittenBytes(_)
WrittenBytes(values) ==
    IF values = << >> \/ ~IsByte(Head(values)) THEN << >>
    ELSE << Head(values) >> \o WrittenBytes(Tail(values))

DefsOf(layer_name) ==
    IF layer_name \in DOMAIN layer_definitions THEN layer_definitions[layer_name] ELSE << >>

\* one cell of convert_tmx_to_bin: [cell: the bytes written, ok: no exception]
EncodeCell(layer_name, defs, tss, raw) ==
    LET r == ReverseCell(layer_name, defs, tss, raw)
        values == CellValues(LAYER_TYPES(layer_name), r, HasFlipFlag(raw))
    IN IF r.raised THEN [cell |-> << >>, ok |-> FALSE]
       ELSE [cell |-> WrittenBytes(values), ok |-> \A i \in DOMAIN values : IsByte(values[i])]

\* the raw GIDs the codec is applied to
LocalSamples == { 0, 2, 4, 7, 255, 1024 }

GidSamples == { 0 } \cup { tilesets[i].firstgid + k : i \in DOMAIN tilesets, k \in LocalSamples }

RawSamples ==
    { [hi |-> hi, lo |-> lo] : hi \in { 0, FLIPPED_HORIZONTALLY_FLAG.hi }, lo \in GidSamples }
        \cup { [hi |-> hi, lo |-> lo] : hi \in { 2, 6 }, lo \in { 0, 1 } }

\* the body of the cell loop of convert_tmx_to_bin, on one raw GID of one layer
ConvertGid ==
    /\ rpc = "cells"
    /\ last.op = "none"
    /\ \E layer_name \in LayerNames :
         \E raw \in RawSamples :
            LET e == EncodeCell(layer_name, DefsOf(layer_name), tilesets, raw)
            IN last' = [op |-> "reverse", layer_name |-> layer_name, cell |-> e.cell,
                        gid |-> raw, ok |-> e.ok]
    /\ UNCHANGED << world, pc, registry, tmx_tilesets, reverse_setup, stream >>

(***************************** specification *******************************)

Referenced(S) == TexturePaths(S) \cup { spawn_icon_path }

\* before convert() runs: nothing generated, nothing read, nothing written
NothingDone ==
    /\ pc = "scan"
    /\ layer_tile_definitions = << >>
    /\ unique_images = << >>
    /\ gen_idx = 0
    /\ current_firstgid = 1
    /\ tsx_files = [p \in Paths |-> NoFile]
    /\ tmx_tilesets = << >>
    /\ rpc = "start"
    /\ tilesets = << >>
    /\ layer_definitions = << >>
    /\ last = NoCell
    /\ ptr = 0
    /\ width = 0
    /\ height = 0
    /\ read_idx = 0
    /\ parsed_layers = << >>
    /\ tmx_file = NoTmx
    /\ edited = FALSE
    /\ map_width = 0
    /\ map_height = 0
    /\ tmx_layers = << >>
    /\ write_idx = 0
    /\ out_bin = << >>

Init ==
    /\ \E S \in DefSets :
         /\ \E bg \in { S, {} } :
               resource_defs = [tscn |-> bg, tres |-> S]
         /\ image_files \in [Paths -> UNION { ImageChoices(p) : p \in Paths }]
         /\ \A p \in Paths :
               image_files[p] \in (IF p \in Referenced(S) THEN ImageChoices(p) ELSE { Missing })
    /\ bin_data = << >>
    /\ NothingDone

Next ==
    \/ ScanResources
    \/ GenerateTileset
    \/ ConvertCell
    \/ WriteTilesets
    \/ ParseTmx
    \/ ConvertGid

Spec == Init /\ [][Next]_vars

(********************* bin_to_tiled.py: the binary stream ******************)

VISUAL_ORDER ==
    << "Mapbackground", "constructbackground", "limitrock", "Mapedges",
       "constructmapedges", "CanvasLayer/ParallaxBackground/treesback/TileMap",
       "CanvasLayer/ParallaxBackground/treesfront/TileMap",
       "constructbackground/backgroundfeatures", "foliage", "constructmap", "paths",
       "features", "destructiblefeatures", "roofmap", "shards", "cummap",
       "CanvasLayer3/fogofwar", "watermap", "Map", "watermaptops", "limitfog",
       "Previewgrid", "spawnmarker" >>

\* mutant: the cursor moves on past the end of the data
get8_advancing(data, p) ==
    IF p >= Len(data) THEN [val |-> 0, ptr |-> p + 1]
    ELSE [val |-> data[p + 1], ptr |-> p + 1]

\* get8: the byte at the cursor and the cursor after the call; past the end of
\* the data the byte is 0 and the cursor stays
get8(data, p) ==
    IF p >= Len(data) THEN [val |-> 0, ptr |-> p]
    ELSE [val |-> data[p + 1], ptr |-> p + 1]

\* n calls of get8 in a row
RECURSIVE ReadBytes(_, _, _)
ReadBytes(data, p, n) ==
    IF n = 0 THEN [vals |-> << >>, ptr |-> p]
    ELSE LET byte == get8(data, p)
             rest == ReadBytes(data, byte.ptr, n - 1)
         IN [vals |-> << byte.val >> \o rest.vals, ptr |-> rest.ptr]

\* lines 346-397: the GIDs of the next n cells of a layer, in reading order
RECURSIVE ReadCells(_, _, _, _)
ReadCells(layer_name, data, p, n) ==
    IF n = 0 THEN [gids |-> << >>, ptr |-> p]
    ELSE LET cell == ReadBytes(data, p, 1 + AuxBytes(LAYER_TYPES(layer_name)))
             rest == ReadCells(layer_name, data, cell.ptr, n - 1)
         IN [gids |-> << ForwardCell(layer_name, TileDefsOf(layer_name),
                                     unique_images, cell.vals) >> \o rest.gids,
             ptr |-> rest.ptr]

\* layer_gids: a list of columns, the cells read with x outside and y inside
LayerGids(gids, w, h) == [x \in 1 .. w |-> [y \in 1 .. h |-> gids[(x - 1) * h + y]]]

\* mutant: the cells are laid out in reading order, without the transposition
CsvLines_readingOrder(layer_gids, w, h) ==
    [y \in 1 .. h |->
        [x \in 1 .. w |->
            layer_gids[(((y - 1) * w + x - 1) \div h) + 1][(((y - 1) * w + x - 1) % h) + 1]]]

\* lines 399-403: the lines of the CSV, one per y, each the row over x
CsvLines(layer_gids, w, h) == [y \in 1 .. h |-> [x \in 1 .. w |-> layer_gids[x][y]]]

\* lines 334-335: width and height are the first two bytes
ReadHeader ==
    /\ pc = "cells"
    /\ LET w == get8(bin_data, ptr)
           h == get8(bin_data, w.ptr)
       IN /\ width' = w.val
          /\ height' = h.val
          /\ ptr' = h.ptr
    /\ pc' = "layers"
    /\ UNCHANGED << world, registry, tmx_tilesets, reverse_setup, last, bin_data, read_idx,
                    parsed_layers, tmx_file, edited, reverse_stream >>

\* lines 340-403: one iteration of the loop over BINARY_READ_ORDER
ReadLayer ==
    /\ pc = "layers"
    /\ read_idx < Len(BINARY_READ_ORDER)
    /\ LET layer_name == BINARY_READ_ORDER[read_idx + 1]
           cells == ReadCells(layer_name, bin_data, ptr, width * height)
       IN /\ ptr' = cells.ptr
          /\ parsed_layers' =
                 (layer_name :> CsvLines(LayerGids(cells.gids, width, height), width, height))
                     @@ parsed_layers
    /\ read_idx' = read_idx + 1
    /\ UNCHANGED << world, pc, registry, tmx_tilesets, reverse_setup, last, bin_data, width,
                    height, tmx_file, edited, reverse_stream >>

\* lines 405-442: the .tmx, the <tileset> nodes and a <layer> per parsed layer
\* of VISUAL_ORDER
WriteTmx ==
    /\ pc = "layers"
    /\ read_idx = Len(BINARY_READ_ORDER)
    /\ tmx_tilesets' = TilesetNodes
    /\ tmx_file' =
         [width |-> width, height |-> height,
          layers |-> [l \in { VISUAL_ORDER[i] : i \in DOMAIN VISUAL_ORDER }
                               \cap DOMAIN parsed_layers |-> parsed_layers[l]]]
    /\ pc' = "done"
    /\ UNCHANGED << world, registry, reverse_setup, last, forward_stream, edited,
                    reverse_stream >>

(********************* the .tmx between the two converters ******************)

\* the layers and the GIDs a change of the .tmx touches
EditLayers == { "Mapbackground", "features", "spawnmarker" }

PaintGids ==
    { FLIPPED_HORIZONTALLY_FLAG,
      IntToGid(unique_images[spawn_icon_path].firstgid + 255) }

\* the map is edited before it is converted back: a layer is deleted or one of
\* its cells is painted
EditTmx ==
    /\ pc = "done"
    /\ rpc = "start"
    /\ ~edited
    /\ \E l \in EditLayers \cap DOMAIN tmx_file.layers :
         \/ tmx_file' = [tmx_file EXCEPT
                            !.layers = [k \in DOMAIN tmx_file.layers \ { l } |->
                                            tmx_file.layers[k]]]
         \/ \E y \in 1 .. tmx_file.height, x \in 1 .. tmx_file.width, g \in PaintGids :
               tmx_file' = [tmx_file EXCEPT !.layers[l][y][x] = g]
    /\ edited' = TRUE
    /\ UNCHANGED << world, pc, registry, tmx_tilesets, reverse_setup, last, forward_stream,
                    reverse_stream >>

(********************* tiled_to_bin.py: the binary stream *******************)

\* the token '' of text.split(','), which int() rejects
NoNumber == [hi |-> 0, lo |-> -1]

\* lines 163-164: the tokens of the CSV text; the lines are joined by ',\n',
\* the text is stripped, the newlines removed and the rest split at ','
RECURSIVE JoinedTokens(_)
JoinedTokens(lines) ==
    IF lines = << >> THEN << >>
    ELSE (IF Head(lines) = << >> THEN << NoNumber >> ELSE Head(lines))
             \o JoinedTokens(Tail(lines))

CsvTokens(lines) == IF lines = << >> THEN << NoNumber >> ELSE JoinedTokens(lines)

\* int(x) raises ValueError for ''
ParseRaises(lines) == \E i \in DOMAIN CsvTokens(lines) : CsvTokens(lines)[i] = NoNumber

\* lines 165-169: token i goes to grid[i % map_width][i // map_width]
TmxGrid(gids, w, h) ==
    [x \in 1 .. w |->
        [y \in 1 .. h |->
            IF (y - 1) * w + x <= Len(gids) THEN gids[(y - 1) * w + x] ELSE IntToGid(0)]]

\* lines 145-180: size, tilesets, layer grids and definition lists; a layer whose
\* text holds an empty token ends the run before anything is written
ParseTmxLayers ==
    /\ pc = "done"
    /\ rpc = "start"
    /\ map_width' = tmx_file.width
    /\ map_height' = tmx_file.height
    /\ tilesets' = LoadTilesets(tmx_tilesets)
    /\ IF \E l \in DOMAIN tmx_file.layers : ParseRaises(tmx_file.layers[l])
       THEN /\ rpc' = "raised"
            /\ UNCHANGED << tmx_layers, layer_definitions >>
       ELSE /\ tmx_layers' =
                  [l \in DOMAIN tmx_file.layers |->
                      TmxGrid(CsvTokens(tmx_file.layers[l]), tmx_file.width, tmx_file.height)]
            /\ \E order \in IdOrders(AllIds) :
                  layer_definitions' =
                      [l \in DefinedLayers |->
                          DefinitionList(ParsedDefs(LayerResource(l)), order)]
            /\ rpc' = "header"
    /\ UNCHANGED << world, pc, registry, tmx_tilesets, last, forward_stream, tmx_file,
                    edited, write_idx, out_bin >>

\* lines 186-187
WriteHeader ==
    /\ rpc = "header"
    /\ out_bin' = WrittenBytes(<< map_width, map_height >>)
    /\ rpc' = IF IsByte(map_width) /\ IsByte(map_height) THEN "layers" ELSE "raised"
    /\ UNCHANGED << world, pc, registry, tmx_tilesets, tilesets, layer_definitions, last,
                    forward_stream, tmx_file, edited, map_width, map_height, tmx_layers,
                    write_idx >>

\* lines 194-196: the raw GIDs of a layer in writing order (x outside, y inside);
\* a layer the .tmx does not hold is all 0
RawGids(layer_name) ==
    [k \in 1 .. map_width * map_height |->
        IF layer_name \in DOMAIN tmx_layers
        THEN tmx_layers[layer_name][((k - 1) \div map_height) + 1][((k - 1) % map_height) + 1]
        ELSE IntToGid(0)]

\* lines 196-248 over the cells of a layer: the bytes written, up to the cell
\* whose write raises
RECURSIVE WriteCells(_, _)
WriteCells(layer_name, raws) ==
    IF raws = << >> THEN [bytes |-> << >>, ok |-> TRUE]
    ELSE LET e == EncodeCell(layer_name, DefsOf(layer_name), tilesets, Head(raws))
         IN IF ~e.ok THEN [bytes |-> e.cell, ok |-> FALSE]
            ELSE LET rest == WriteCells(layer_name, Tail(raws))
                 IN [bytes |-> e.cell \o rest.bytes, ok |-> rest.ok]

\* lines 189-248: one iteration of the loop over BINARY_WRITE_ORDER
WriteLayer ==
    /\ rpc = "layers"
    /\ write_idx < Len(BINARY_WRITE_ORDER)
    /\ LET layer_name == BINARY_WRITE_ORDER[write_idx + 1]
           written == WriteCells(layer_name, RawGids(layer_name))
       IN /\ out_bin' = out_bin \o written.bytes
          /\ rpc' = IF written.ok THEN "layers" ELSE "raised"
    /\ write_idx' = write_idx + 1
    /\ UNCHANGED << world, pc, registry, tmx_tilesets, tilesets, layer_definitions, last,
                    forward_stream, tmx_file, edited, map_width, map_height, tmx_layers >>

\* line 250
WriteSentinel ==
    /\ rpc = "layers"
    /\ write_idx = Len(BINARY_WRITE_ORDER)
    /\ out_bin' = Append(out_bin, 0)
    /\ rpc' = "done"
    /\ UNCHANGED << world, pc, registry, tmx_tilesets, tilesets, layer_definitions, last,
                    forward_stream, tmx_file, edited, map_width, map_height, tmx_layers,
                    write_idx >>

(******************** specification of the whole passes ********************)

MaxDim == 2

StreamDefSets == { { Def5 }, { Def0, Def4 } }

StreamImageChoices(path) ==
    IF path = PathX THEN { Missing }
    ELSE IF path = PathA THEN { Png(512, 256) }
         ELSE { Missing, Png(384, 256), Png(2048, 2048) }

BytePatterns == { << 0 >>, << 6, 2, 0, 5, 1, 0, 1 >>, << 1, 1, 255 >> }

\* bytes of one cell of a layer
CellBytes(layer_name) == 1 + AuxBytes(LAYER_TYPES(layer_name))

\* bytes of one cell in each of the layers before the k-th of an order
RECURSIVE BytesBefore(_, _)
BytesBefore(order, k) ==
    IF k <= 1 THEN 0 ELSE BytesBefore(order, k - 1) + CellBytes(order[k - 1])

FullLength(w, h) == w * h * BytesBefore(BINARY_READ_ORDER, Len(BINARY_READ_ORDER) + 1)

Body(pattern, n) == [i \in 1 .. n |-> pattern[((i - 1) % Len(pattern)) + 1]]

\* the .bin files: complete, with a trailing byte, cut in the middle, cut in
\* the header
StreamLength(w, h, cut) ==
    IF cut = "complete" THEN FullLength(w, h)
    ELSE IF cut = "trailing" THEN FullLength(w, h) + 1
         ELSE FullLength(w, h) \div 2

Streams ==
    { << w, h >> \o Body(pattern, StreamLength(w, h, cut)) :
        w \in 0 .. MaxDim, h \in 0 .. MaxDim, pattern \in BytePatterns,
        cut \in { "complete", "trailing", "middle" } }
      \cup { << >>, << 1 >> }

InitStream ==
    /\ \E S \in StreamDefSets :
         /\ resource_defs = [tscn |-> S, tres |-> S]
         /\ image_files \in [Paths -> UNION { StreamImageChoices(p) : p \in Paths }]
         /\ \A p \in Paths :
               image_files[p] \in (IF p \in Referenced(S) THEN StreamImageChoices(p)
                                   ELSE { Missing })
    /\ bin_data \in Streams
    /\ NothingDone

NextStream ==
    \/ ScanResources
    \/ GenerateTileset
    \/ ReadHeader
    \/ ReadLayer
    \/ WriteTmx
    \/ EditTmx
    \/ ParseTmxLayers
    \/ WriteHeader
    \/ WriteLayer
    \/ WriteSentinel

SpecStream == InitStream /\ [][NextStream]_vars

(********************************* claims **********************************)

RegistryComplete == pc \in { "cells", "done" }

TileCount(path) == unique_images[path].cols * unique_images[path].rows

FirstGid(path) == unique_images[path].firstgid

RECURSIVE SumTileCounts(_)
SumTileCounts(S) ==
    IF S = {} THEN 0
    ELSE LET p == CHOOSE q \in S : TRUE
         IN TileCount(p) + SumTileCounts(S \ {p})

EarlierPaths(path) == { q \in DOMAIN unique_images : StrLess(q, path) }

\* C2: once every atlas is numbered, each atlas has firstgid = 1 + the tile counts
\* of the atlases with a lexicographically smaller path; so GID 0 is in no atlas
\* range, two atlas ranges never overlap, and the atlas that follows another in
\* path order starts where that one ends.
C2_AtlasNumbering ==
    RegistryComplete =>
        \A p \in DOMAIN unique_images :
            /\ FirstGid(p) = 1 + SumTileCounts(EarlierPaths(p))
            /\ ~(FirstGid(p) <= 0 /\ 0 < FirstGid(p) + TileCount(p))
            /\ \A q \in DOMAIN unique_images \ {p} :
                  /\ \A g \in FirstGid(p) .. (FirstGid(p) + TileCount(p) - 1) :
                        ~(FirstGid(q) <= g /\ g < FirstGid(q) + TileCount(q))
                  /\ (EarlierPaths(q) = EarlierPaths(p) \cup {p})
                        => FirstGid(q) = FirstGid(p) + TileCount(p)

C2_Witness ==
    /\ RegistryComplete
    /\ Cardinality(DOMAIN unique_images) = 3
    /\ TileCount(PathX) = 1
    /\ TileCount(PathA) = 8
    /\ FirstGid(spawn_icon_path) = 10
    /\ TileCount(spawn_icon_path) = 6

ZeroBytes(layer_name) == [i \in 1 .. (1 + AuxBytes(LAYER_TYPES(layer_name))) |-> 0]

\* C3 (as claimed): a raw GID that is 0 once the flip flag is masked off is
\* written as tile index 0 followed by zero auxiliary bytes, on every layer.
C3_EmptyCellAllZero ==
    (last.op = "reverse" /\ MaskGid(last.gid) = 0) =>
        (last.ok /\ last.cell = ZeroBytes(last.layer_name))

\* the GID 0 with the flip flag on a FLIP layer
C3_FailingInput ==
    /\ last.op = "reverse"
    /\ last.layer_name = "features"
    /\ last.gid = FLIPPED_HORIZONTALLY_FLAG
    /\ last.cell = << 0, 1 >>

ToggleFlipFlag(raw) ==
    [raw EXCEPT !.hi = IF HasFlipFlag(raw)
                       THEN raw.hi - FLIPPED_HORIZONTALLY_FLAG.hi
                       ELSE raw.hi + FLIPPED_HORIZONTALLY_FLAG.hi]

ResolvedGrid(raw) ==
    LET t == TargetIndex(MaskGid(raw), tilesets)
    IN IF t = 0 THEN << 0, 0, 0 >>
       ELSE << t >> \o ImgGrid(tilesets[t], MaskGid(raw) - tilesets[t].firstgid)

\* C4: the raw GID that differs from the converted one in bit 31 only resolves to
\* the same atlas entry and grid coordinate and yields the same tile index and
\* autotile offsets; the written cells are equal, except for the flip byte (the
\* second byte) of a FLIP layer.
C4_FlipIsolation ==
    last.op = "reverse" =>
        LET other == ToggleFlipFlag(last.gid)
            defs == DefsOf(last.layer_name)
            e == EncodeCell(last.layer_name, defs, tilesets, other)
        IN /\ ResolvedGrid(other) = ResolvedGrid(last.gid)
           /\ ReverseCell(last.layer_name, defs, tilesets, other)
                 = ReverseCell(last.layer_name, defs, tilesets, last.gid)
           /\ e.ok = last.ok
           /\ Len(e.cell) = Len(last.cell)
           /\ \A i \in DOMAIN last.cell :
                 (e.cell[i] # last.cell[i]) =>
                     (i = 2 /\ LAYER_TYPES(last.layer_name) = TYPE_FLIP)
           /\ (LAYER_TYPES(last.layer_name) = TYPE_FLIP /\ Len(last.cell) = 2)
                 => last.cell[2] = (IF HasFlipFlag(last.gid) THEN 1 ELSE 0)

C4_Witness ==
    /\ last.op = "reverse"
    /\ HasFlipFlag(last.gid)
    /\ LAYER_TYPES(last.layer_name) = TYPE_FLIP
    /\ last.cell = << 1, 1 >>


(* C1: round trip *)

Aligned(d) ==
    /\ \A i \in 1 .. 4 : d.region[i] % T128 = 0
    /\ \A i \in 1 .. 2 : d.stride[i] % T128 = 0 /\ d.stride[i] > 0
    /\ d.region[3] > 0
    /\ d.region[4] > 0

RegionsDisjoint(a, b) ==
    \/ a.region[1] + a.region[3] <= b.region[1]
    \/ b.region[1] + b.region[3] <= a.region[1]
    \/ a.region[2] + a.region[4] <= b.region[2]
    \/ b.region[2] + b.region[4] <= a.region[2]

\* every region aligned to the tile size and no two regions sharing a pixel
Unambiguous(defs) ==
    /\ \A d \in defs : Aligned(d)
    /\ \A a, b \in defs : a # b => RegionsDisjoint(a, b)

\* the tile a cell of definition d names lies in the region of d and in its image
ValidTile(d, auto_x, auto_y) ==
    LET pixel_x == d.region[1] + auto_x * d.stride[1]
        pixel_y == d.region[2] + auto_y * d.stride[2]
        img_ts == unique_images[d.texture_path]
    IN /\ (d.tile_mode > 0) \/ (auto_x = 0 /\ auto_y = 0)
       /\ auto_x * d.stride[1] < d.region[3]
       /\ auto_y * d.stride[2] < d.region[4]
       /\ 0 <= pixel_x /\ pixel_x < Tenths(TILE_SIZE) * img_ts.cols
       /\ 0 <= pixel_y /\ pixel_y < Tenths(TILE_SIZE) * img_ts.rows

\* a valid (tile index, auxiliary bytes) combination of a layer
ValidCell(layer_name, cell) ==
    LET parse_type == LAYER_TYPES(layer_name)
        tile_id == cell[1] - 1
    IN IF layer_name = "spawnmarker"
       THEN 0 <= tile_id /\ tile_id < TileCount(spawn_icon_path)
       ELSE \E d \in TileDefsOf(layer_name) :
               /\ d.godot_id = tile_id
               /\ IF parse_type = TYPE_AUTOTILE THEN ValidTile(d, cell[2], cell[3])
                  ELSE ValidTile(d, 0, 0)
               /\ parse_type = TYPE_FLIP => cell[2] \in { 0, 1 }

\* the reverse codec's cell for a GID of the forward pass, for one iteration
\* order of the definition ids
ReEncoded(layer_name, gid, order) ==
    EncodeCell(layer_name,
               IF layer_name \in DefinedLayers
               THEN DefinitionList(ParsedDefs(LayerResource(layer_name)), order)
               ELSE << >>,
               LoadTilesets(TilesetNodes), gid)

\* C1 (as claimed): when the regions of a layer's definitions are aligned to the
\* tile size and pairwise distinct (no shared pixel), re-encoding the GID of a
\* valid cell returns the bytes of the cell, on every layer of every type.
C1_RoundTrip ==
    (/\ last.op = "forward"
     /\ Unambiguous(TileDefsOf(last.layer_name))
     /\ ValidCell(last.layer_name, last.cell)) =>
        \A order \in IdOrders(AllIds) :
            ReEncoded(last.layer_name, last.gid, order) = [cell |-> last.cell, ok |-> TRUE]

\* a valid cell of aligned, disjoint regions that does not come back: the atlas
\* of the tile shares its firstgid with an atlas whose image is missing
C1_FailingInput ==
    /\ last.op = "forward"
    /\ last.layer_name = "Map"
    /\ last.cell = << 5, 1, 0 >>
    /\ last.gid = IntToGid(6)
    /\ TileDefsOf("Map") = { Def0, Def4 }
    /\ Unambiguous(TileDefsOf("Map"))
    /\ ValidCell("Map", last.cell)
    /\ TileCount(PathX) = 0
    /\ FirstGid(PathX) = FirstGid(PathA)
    /\ \A order \in IdOrders(AllIds) :
          ReEncoded("Map", last.gid, order) = [cell |-> << 0, 0, 0 >>, ok |-> TRUE]

(* C5: the AUTOTILE scenario *)

ScenarioAtlas(img_ts) == img_ts.firstgid = 1 /\ img_ts.cols = 4 /\ img_ts.rows >= 1

ScenarioForward ==
    /\ last.op = "forward"
    /\ LAYER_TYPES(last.layer_name) = TYPE_AUTOTILE
    /\ Def5 \in TileDefsOf(last.layer_name)
    /\ ScenarioAtlas(unique_images[PathA])
    /\ last.cell = << 6, 2, 0 >>

ScenarioReverse ==
    /\ last.op = "reverse"
    /\ LAYER_TYPES(last.layer_name) = TYPE_AUTOTILE
    /\ DefsOf(last.layer_name) = << Def5 >>
    /\ last.gid = IntToGid(3)
    /\ LET t == TargetIndex(3, tilesets)
       IN /\ t # 0
          /\ tilesets[t].firstgid = 1
          /\ tilesets[t].columns = 4
          /\ tilesets[t].image_path = PathA

IconForward ==
    /\ last.op = "forward"
    /\ last.layer_name = "spawnmarker"
    /\ last.cell[1] - 1 >= 0

IconForwardMapping ==
    IconForward =>
        last.gid = IntToGid(IF last.cell[1] - 1 < TileCount(spawn_icon_path)
                            THEN FirstGid(spawn_icon_path) + (last.cell[1] - 1)
                            ELSE FirstGid(spawn_icon_path))

\* the converted GID lies in the range of the icon atlas
IconReverse ==
    /\ last.op = "reverse"
    /\ last.layer_name = "spawnmarker"
    /\ FirstGid(spawn_icon_path) <= MaskGid(last.gid)
    /\ MaskGid(last.gid) < FirstGid(spawn_icon_path) + TileCount(spawn_icon_path)

IconLocalIndex == MaskGid(last.gid) - FirstGid(spawn_icon_path)

WithoutFlipFlag(g) == (g.hi % FLIPPED_HORIZONTALLY_FLAG.hi) * (GID_MASK + 1) + g.lo

InSomeAtlas(v) ==
    \E p \in DOMAIN unique_images : FirstGid(p) <= v /\ v < FirstGid(p) + TileCount(p)

\* C7 (as claimed): every GID of the forward codec is non-negative and, with bit
\* 31 cleared, is 0 or lies in the range of a registered atlas.
C7_ForwardRange ==
    last.op = "forward" =>
        /\ last.gid.hi >= 0
        /\ WithoutFlipFlag(last.gid) = 0 \/ InSomeAtlas(WithoutFlipFlag(last.gid))

\* a region left of and above the image: the GID is negative
C7_FailingInput ==
    /\ last.op = "forward"
    /\ last.layer_name = "Map"
    /\ last.cell = << 2, 0, 0 >>
    /\ DefNeg \in TileDefsOf("Map")
    /\ unique_images[PathA].cols = 4
    /\ unique_images[PathA].rows = 2
    /\ last.gid = IntToGid(FirstGid(PathA) - 6)

\* C8 (as claimed): a masked GID at or beyond the end of the last atlas range is
\* written as an empty cell, on every layer.
C8_OutOfRangeEmpty ==
    (/\ last.op = "reverse"
     /\ \A p \in DOMAIN unique_images : MaskGid(last.gid) >= FirstGid(p) + TileCount(p)) =>
        (last.ok /\ last.cell # << >> /\ last.cell[1] = 0)

\* the GID one past the six tiles of the last atlas, on spawnmarker
C8_FailingInput ==
    /\ last.op = "reverse"
    /\ last.layer_name = "spawnmarker"
    /\ TileCount(spawn_icon_path) = 6
    /\ \A p \in DOMAIN unique_images : FirstGid(p) <= FirstGid(spawn_icon_path)
    /\ last.gid = IntToGid(FirstGid(spawn_icon_path) + 7)
    /\ last.cell = << 8 >>

\* C9 (as claimed): a cell that resolves into an atlas without tiles is empty:
\* GID 0 for a definition that draws from it, tile index 0 for a GID whose
\* resolved tileset entry is that atlas.
C9_ZeroTileAtlasEmpty ==
    /\ (/\ last.op = "forward"
        /\ last.layer_name # "spawnmarker"
        /\ \E d \in TileDefsOf(last.layer_name) :
              d.godot_id = last.cell[1] - 1 /\ TileCount(d.texture_path) = 0)
          => last.gid = IntToGid(0)
    /\ (/\ last.op = "reverse"
        /\ MaskGid(last.gid) > 0
        /\ TargetIndex(MaskGid(last.gid), tilesets) # 0
        /\ TileCount(tilesets[TargetIndex(MaskGid(last.gid), tilesets)].source_tsx) = 0)
          => (last.ok /\ last.cell # << >> /\ last.cell[1] = 0)


(* C10: byte alignment *)

Untruncated == Len(bin_data) >= 2 + FullLength(width, height)

\* the bytes of the layers before the k-th in the written file
WrittenBefore(k) == 2 + map_width * map_height * BytesBefore(BINARY_WRITE_ORDER, k)

\* the bytes of the k-th layer in the written file are all 0
LayerAllEmpty(k) ==
    \A i \in (WrittenBefore(k) + 1) .. WrittenBefore(k + 1) :
        i \in DOMAIN out_bin /\ out_bin[i] = 0

ForwardAligned ==
    (pc = "layers" /\ Untruncated) =>
        ptr = 2 + width * height * BytesBefore(BINARY_READ_ORDER, read_idx + 1)

ReverseAligned ==
    /\ rpc = "layers" => Len(out_bin) = WrittenBefore(write_idx + 1)
    /\ rpc \in { "done", "raised" } =>
          /\ Len(out_bin) = WrittenBefore(Len(BINARY_WRITE_ORDER) + 1) + 1
          /\ out_bin[Len(out_bin)] = 0
          /\ \A k \in DOMAIN BINARY_WRITE_ORDER :
                BINARY_WRITE_ORDER[k] \notin DOMAIN tmx_file.layers => LayerAllEmpty(k)

\* C10 (as claimed): every cell takes 1, 2 or 3 bytes by the type of its layer
\* alone: on an untruncated stream the forward cursor at the start of the k-th
\* layer is 2 + width*height*(bytes per cell of the earlier layers), and every
\* reverse pass writes 2 + width*height*(bytes per cell of all 17 layers) bytes
\* and one trailing 0, a layer absent from the .tmx as empty cells.
C10_ByteAlignment == ForwardAligned /\ ReverseAligned

\* the firstgid of the icon atlas whose image is missing, on a layer whose
\* definition of another image covers pixel (0, 0)
C9_FailingInput ==
    /\ last.op = "reverse"
    /\ last.layer_name = "Map"
    /\ TileCount(spawn_icon_path) = 0
    /\ last.gid = IntToGid(FirstGid(spawn_icon_path))
    /\ tilesets[TargetIndex(MaskGid(last.gid), tilesets)].source_tsx = spawn_icon_path
    /\ last.cell = << 6, 0, 0 >>

\* a map without cells: the reverse pass ends in the parse of the layers
C10_FailingInput ==
    /\ rpc = "raised"
    /\ tmx_file.width = 0
    /\ \A k \in DOMAIN BINARY_WRITE_ORDER : BINARY_WRITE_ORDER[k] \in DOMAIN tmx_file.layers
    /\ ~edited
    /\ out_bin = << >>

\* an icon painted beyond the 255th tile: the reverse pass ends in the layer
C10_WriteRaises ==
    /\ rpc = "raised"
    /\ tmx_file.width > 0
    /\ tmx_file.height > 0
    /\ BINARY_WRITE_ORDER[write_idx] = "spawnmarker"
    /\ TileCount(spawn_icon_path) = 256

(* C11: transposition *)

\* the flat GID array of a layer: its CSV lines one after the other
RECURSIVE FlatGids(_)
FlatGids(lines) == IF lines = << >> THEN << >> ELSE Head(lines) \o FlatGids(Tail(lines))

\* the byte at 0-based offset i of the .bin file, 0 past its end
ByteAt(i) == IF i < Len(bin_data) THEN bin_data[i + 1] ELSE 0

\* the bytes of the cell at position pos of the k-th layer of the .bin file
BinaryCell(k, pos) ==
    LET layer_name == BINARY_READ_ORDER[k]
        at == 2 + width * height * BytesBefore(BINARY_READ_ORDER, k) + pos * CellBytes(layer_name)
    IN [i \in 1 .. CellBytes(layer_name) |-> ByteAt(at + i - 1)]

\* the bytes of the cell at position pos of the k-th layer of the written file
WrittenCell(k, pos) ==
    LET at == WrittenBefore(k) + pos * CellBytes(BINARY_WRITE_ORDER[k])
    IN SubSeq(out_bin, at + 1, at + CellBytes(BINARY_WRITE_ORDER[k]))

\* the .tmx as the forward pass wrote it
ForwardDone == pc = "done" /\ rpc = "start" /\ ~edited

\* the reverse pass has ended, at the sentinel or in an exception
ReverseEnded == rpc \in { "done", "raised" }

ForwardTransposed ==
    ForwardDone =>
        \A k \in DOMAIN BINARY_READ_ORDER :
            \A x \in 0 .. width - 1, y \in 0 .. height - 1 :
                LET layer_name == BINARY_READ_ORDER[k]
                IN FlatGids(tmx_file.layers[layer_name])[y * width + x + 1] =
                       ForwardCell(layer_name, TileDefsOf(layer_name), unique_images,
                                   BinaryCell(k, x * height + y))

\* the layers the reverse pass has written completely
LayersWritten == IF rpc = "raised" THEN write_idx - 1 ELSE write_idx

ReverseTransposed ==
    ReverseEnded =>
      \A k \in 1 .. LayersWritten :
        \A x \in 0 .. map_width - 1, y \in 0 .. map_height - 1 :
            LET layer_name == BINARY_WRITE_ORDER[k]
            IN layer_name \in DOMAIN tmx_file.layers =>
                   WrittenCell(k, x * map_height + y) =
                       EncodeCell(layer_name, DefsOf(layer_name), tilesets,
                                  FlatGids(tmx_file.layers[layer_name])[y * map_width + x + 1]).cell

\* C11: for every layer and every cell (x, y) the binary cell at column-major
\* position x*height + y is the cell of the entry at row-major position
\* y*width + x of the layer's flat GID array: in the .tmx the forward pass
\* wrote the entry is the forward codec's GID of the binary cell, and in the
\* file a reverse pass wrote (up to the layer an exception ended it in) the
\* bytes are the reverse codec's bytes of the entry, also when width differs
\* from height.
C11_Transposition == ForwardTransposed /\ ReverseTransposed

\* a 2x1 map converted both ways, a layer of which holds two different GIDs
\* that are written as two different cells
C11_Witness ==
    /\ rpc = "done"
    /\ width = 2
    /\ height = 1
    /\ map_width = 2
    /\ map_height = 1
    /\ \E k \in DOMAIN BINARY_WRITE_ORDER :
          /\ BINARY_WRITE_ORDER[k] \in DOMAIN tmx_file.layers
          /\ FlatGids(tmx_file.layers[BINARY_WRITE_ORDER[k]])[1]
                 # FlatGids(tmx_file.layers[BINARY_WRITE_ORDER[k]])[2]
          /\ WrittenCell(k, 0) # WrittenCell(k, 1)

(* C12: truncated input *)

Truncated == ~Untruncated

\* the bytes the pass has asked for so far: the header and the layers read
BytesExpected == 2 + width * height * BytesBefore(BINARY_READ_ORDER, read_idx + 1)

\* the 0-based offset of the tile index byte of a cell, were the stream complete
TileIndexOffset(k, pos) ==
    2 + width * height * BytesBefore(BINARY_READ_ORDER, k)
      + pos * CellBytes(BINARY_READ_ORDER[k])

\* the cursor never passes the end: it is where a complete stream would have
\* it, or at the stream length
CursorStaysAtEnd ==
    pc \in { "layers", "done" } =>
        ptr = (IF BytesExpected <= Len(bin_data) THEN BytesExpected ELSE Len(bin_data))

\* every layer read is a grid of height lines of width GIDs
FullGrids ==
    /\ \A l \in DOMAIN parsed_layers :
          /\ Len(parsed_layers[l]) = height
          /\ \A y \in 1 .. height : Len(parsed_layers[l][y]) = width
    /\ DOMAIN parsed_layers = { BINARY_READ_ORDER[k] : k \in 1 .. read_idx }

\* a cell whose tile index byte lies past the end is GID 0
PastEndIsEmpty ==
    ForwardDone =>
        \A k \in DOMAIN BINARY_READ_ORDER :
            \A x \in 0 .. width - 1, y \in 0 .. height - 1 :
                TileIndexOffset(k, x * height + y) >= Len(bin_data) =>
                    FlatGids(tmx_file.layers[BINARY_READ_ORDER[k]])[y * width + x + 1] = IntToGid(0)

\* the pass goes on whatever the stream length: in the layer loop the guard of
\* ReadLayer or of WriteTmx holds (neither reads the stream length), and the
\* .tmx written holds every layer of the layer order
NeverStuck ==
    /\ pc = "layers" =>
          (read_idx < Len(BINARY_READ_ORDER) \/ read_idx = Len(BINARY_READ_ORDER))
    /\ ForwardDone => DOMAIN tmx_file.layers = LayerNames

\* C12: on a stream that ends before all expected bytes are read, a read past
\* the end returns 0 and leaves the cursor at the stream length, the forward
\* pass still produces a full width*height grid for every layer of the layer
\* order, every cell whose tile index byte lies past the end decodes to GID 0,
\* and the short stream never stops the conversion.
C12_TruncatedInput ==
    Truncated => (CursorStaysAtEnd /\ FullGrids /\ PastEndIsEmpty /\ NeverStuck)

\* a 2x2 map cut in the middle: a tile before the cut, the later layers empty
C12_Witness ==
    /\ ForwardDone
    /\ width = 2
    /\ height = 2
    /\ Len(bin_data) = 2 + (FullLength(2, 2) \div 2)
    /\ ptr = Len(bin_data)
    /\ \E l \in LayerNames : FlatGids(tmx_file.layers[l])[1] # IntToGid(0)
    /\ FlatGids(tmx_file.layers["watermaptops"]) = [i \in 1 .. 4 |-> IntToGid(0)]

(* C13: no write aborts the reverse pass *)

\* C13 (as claimed): every value the reverse codec writes for a cell is an
\* integer in 0..255, so no write of a cell raises and every reverse pass that
\* has parsed its .tmx reaches the trailing sentinel.
C13_NoWriteAbort == ~(rpc = "raised" /\ write_idx > 0)

\* a 1x1 map with an icon atlas of 256 tiles whose spawnmarker cell is painted
\* with the GID of the last tile: the pass ends in the spawnmarker layer, the
\* 15th, with the bytes of the 14 layers before it
C13_FailingInput ==
    /\ rpc = "raised"
    /\ map_width = 1
    /\ map_height = 1
    /\ TileCount(spawn_icon_path) = 256
    /\ FlatGids(tmx_file.layers["spawnmarker"]) =
           << IntToGid(FirstGid(spawn_icon_path) + 255) >>
    /\ BINARY_WRITE_ORDER[write_idx] = "spawnmarker"
    /\ Len(out_bin) = WrittenBefore(write_idx)

(* C14: first match in source order *)

\* the pixel of a converted GID and the image of its tileset
ResolvedPixel(raw) ==
    LET t == TargetIndex(MaskGid(raw), tilesets)
        grid == ImgGrid(tilesets[t], MaskGid(raw) - tilesets[t].firstgid)
    IN [image_path |-> tilesets[t].image_path,
        x |-> grid[1] * TILE_SIZE, y |-> grid[2] * TILE_SIZE]

\* the definitions of a list that match a pixel of an image, as list indexes
Matching(defs, px) ==
    { i \in DOMAIN defs :
        /\ PathMatches(defs[i], px.image_path)
        /\ RegionContains(defs[i].region, px.x, px.y) }

\* the cell is that of the first matching definition of the searched list
FirstMatchWins ==
    (/\ last.op = "reverse"
     /\ last.layer_name # "spawnmarker"
     /\ MaskGid(last.gid) > 0
     /\ TargetIndex(MaskGid(last.gid), tilesets) # 0
     /\ Matching(DefsOf(last.layer_name), ResolvedPixel(last.gid)) # {}) =>
        LET hits == Matching(DefsOf(last.layer_name), ResolvedPixel(last.gid))
            first == CHOOSE i \in hits : \A j \in hits : i <= j
        IN last.cell # << >> /\ last.cell[1] = DefsOf(last.layer_name)[first].godot_id + 1

\* the searched lists are in the order of the resource files
ListsInSourceOrder ==
    rpc = "cells" =>
        \A l \in DOMAIN layer_definitions :
            layer_definitions[l] = DefinitionList(ParsedDefs(LayerResource(l)), SourceOrder)

\* every run on the same input writes the same cell
SameCellEveryRun ==
    last.op = "reverse" =>
        \A order \in IdOrders(AllIds) :
            ReEncoded(last.layer_name, last.gid, order) = [cell |-> last.cell, ok |-> last.ok]

\* C14 (as claimed): the reverse lookup returns the first definition of the
\* layer's list whose path matches the resolved atlas and whose region contains
\* the pixel, the list is in the source order of the definitions, and so two
\* runs on the same input always pick the same tile index, also with
\* overlapping regions.
C14_FirstMatchSourceOrder == FirstMatchWins /\ ListsInSourceOrder /\ SameCellEveryRun

\* two definitions, ids 3 and 5, whose regions both hold pixel (0, 0): a run
\* that iterates the id set as 5, 3 writes the tile index of id 5, the source
\* order would give that of id 3
C14_FailingInput ==
    /\ last.op = "reverse"
    /\ last.layer_name = "Map"
    /\ DefsOf("Map") = << Def5, DefOver >>
    /\ SourceOrder = << 3, 5 >>
    /\ MaskGid(last.gid) > 0
    /\ TargetIndex(MaskGid(last.gid), tilesets) # 0
    /\ tilesets[TargetIndex(MaskGid(last.gid), tilesets)].columns = 4
    /\ ResolvedPixel(last.gid) = [image_path |-> PathA, x |-> 0, y |-> 0]
    /\ last.cell = << 6, 0, 0 >>
    /\ ReEncoded("Map", last.gid, SourceOrder) = [cell |-> << 4, 0, 0 >>, ok |-> TRUE]

(* C15: no matching definition *)

\* a converted non-zero GID of a layer other than the icon layer that resolves
\* to a tileset and to a pixel no definition of the layer matches
NoDefinitionMatches ==
    /\ last.op = "reverse"
    /\ last.layer_name # "spawnmarker"
    /\ MaskGid(last.gid) > 0
    /\ TargetIndex(MaskGid(last.gid), tilesets) # 0
    /\ Matching(DefsOf(last.layer_name), ResolvedPixel(last.gid)) = {}

\* the atlas grid coordinate of the converted GID
FallbackGrid ==
    << ResolvedPixel(last.gid).x \div TILE_SIZE, ResolvedPixel(last.gid).y \div TILE_SIZE >>

\* the tile index byte and the autotile offset bytes of the written cell are 0
TileAndOffsetsZero ==
    /\ last.ok
    /\ Len(last.cell) = Len(CellValues(LAYER_TYPES(last.layer_name), EmptyCell, FALSE))
    /\ last.cell[1] = 0
    /\ LAYER_TYPES(last.layer_name) = TYPE_AUTOTILE => last.cell = << 0, 0, 0 >>

\* C15 (as claimed): when no definition of the layer matches the pixel of a
\* non-zero GID, Mapbackground with a non-empty definition list emits
\* [first definition's id + 1, grid_x, grid_y], and every other non-icon layer,
\* and Mapbackground with an empty list, emits tile index 0 and offsets 0.
C15_NoMatchFallback ==
    NoDefinitionMatches =>
        IF last.layer_name = "Mapbackground" /\ DefsOf("Mapbackground") # << >>
        THEN /\ last.ok
             /\ last.cell = << DefsOf("Mapbackground")[1].godot_id + 1,
                               FallbackGrid[1], FallbackGrid[2] >>
        ELSE TileAndOffsetsZero

\* a GID 1024 above the firstgid of the last atlas, of 3 columns, has grid
\* coordinate (1, 341): the fallback asks to write 341 as a byte and the cell is
\* cut short
C15_FailingInput ==
    /\ NoDefinitionMatches
    /\ last.layer_name = "Mapbackground"
    /\ DefsOf("Mapbackground") # << >>
    /\ tilesets[TargetIndex(MaskGid(last.gid), tilesets)].columns = 3
    /\ FallbackGrid = << 1, 341 >>
    /\ ~last.ok
    /\ last.cell = << DefsOf("Mapbackground")[1].godot_id + 1, 1 >>

====
